---- MODULE Spec2Model ----
(***************************************************************************)
(* A model of securitycenter/sc5.py: the SecurityCenter5 client.  The      *)
(* session part is the token, the cookie dictionaries and the default      *)
(* header dictionaries of the verb methods; the analysis part is the       *)
(* query document and the pagination loop of SecurityCenter5.analysis.     *)
(*                                                                         *)
(* Python objects are modelled by what they are: a dict is a function      *)
(* whose domain is its key set, a default argument `headers={}` is ONE     *)
(* dict per function, created when the function is defined and shared by   *)
(* every call that omits the argument, and the class attribute             *)
(* `_cookies = {}` is ONE dict shared by every instance that has not       *)
(* assigned its own.                                                       *)
(***************************************************************************)
EXTENDS Integers, Sequences, FiniteSets, TLC

\* ------------------------------------------------------------------ bounds
NumClients == 2     \* client instances of the process
NumTokens == 1      \* distinct token values the server hands out
MaxTotal == 2       \* largest totalRecords / endOffset the server reports
MaxPageSize == 2    \* largest page_size a caller passes
MaxPage == 1        \* largest page number a caller passes
MaxReq == 2         \* requests of one sweep before an arbitrary server must end it
MaxRecords == 5     \* most records a well-behaved server holds
MaxFilters == 2     \* most filter tuples a caller passes

Clients == 1..NumClients
Tokens == 1..NumTokens

\* ------------------------------------------------------- python values
\* None and the other falsy values a token or an error code can take are
\* modelled by 0: the code only ever tests them for truth.
None == 0
Truthy(v) == v # 0

EmptyDict == [k \in {} |-> 0]
DictSet(d, k, v) == [j \in (DOMAIN d) \cup {k} |-> IF j = k THEN v ELSE d[j]]
HasKey(d, k) == k \in DOMAIN d

XSC == "X-SecurityCenter"
SID == "TNS_SESSIONID"

Verbs == {"head", "get", "post", "put", "patch", "delete"}

\* An exception in flight, or none.
NoExc == [type |-> "none", code |-> 0, msg |-> ""]
APIError(code, msg) == [type |-> "APIError", code |-> code, msg |-> msg]
ValueError == [type |-> "ValueError", code |-> 0, msg |-> ""]
KeyError == [type |-> "KeyError", code |-> 0, msg |-> ""]

\* ------------------------------------------------------------------ state
VARIABLES
    _token,         \* [Clients -> token or None]: the instance attribute
    _cookies,       \* the class-level dict SecurityCenter5._cookies
    ownCookies,     \* [Clients -> dict]: the instance-level _cookies, if assigned
    hasOwn,         \* [Clients -> BOOLEAN]: the instance has its own _cookies
    defaults,       \* [Verbs -> dict]: each verb method's default `headers`
    sent,           \* the last request handed to the transport
    raised,         \* the exception the last call ended with, or NoExc
    returned,       \* what the last verb call of the user returned, if it did
    wire,           \* the last response the server put on the wire
    \* --- one analysis call
    pc,             \* where the analysis call stands
    args,           \* the arguments of the analysis call as the caller passed them
    self,           \* the client the analysis call runs on
    opts,           \* page, page_size, page_obj (the options pulled from kwargs)
    kwargs,         \* the JSON body: type, sourceType, query
    built,          \* the query was built from filters (no caller query)
    callerQuery,    \* the query as the caller passed it (bypass mode)
    count,          \* local count
    total_records,  \* local total_records
    output,         \* local output
    resp,           \* local resp: the last response post returned
    result,         \* what the analysis call returned to its caller, if it has
    inflight,       \* requests handed to the transport and not yet answered
    requests,       \* history: the query of every request of the sweep
    pages,          \* history: every value the page handler returned
    server          \* how the server answers this sweep, and its records

sessionVars == <<_token, _cookies, ownCookies, hasOwn, defaults>>
obsVars == <<sent, raised, returned, wire>>
analysisVars == <<pc, args, self, opts, kwargs, built, callerQuery, count,
                  total_records, output, resp, result, inflight,
                  requests, pages, server>>
vars == <<sessionVars, obsVars, analysisVars>>

\* ---------------------------------------------------------------- server
\* What the server may answer.  A response is its body (decodable as JSON
\* or not; when decodable, error_code, error_msg and the `response`
\* payload) and the cookies it sets.
ErrorCodes == {403, 500}
ErrorMsg(code) == IF code = 403 THEN "forbidden" ELSE "internal error"

NumSids == 2        \* distinct session cookie values the server hands out
Sids == 1..NumSids

Body(payload, jar) ==
    [decodable |-> TRUE, error_code |-> 0, error_msg |-> "",
     response |-> payload, cookies |-> jar]
ErrorBody(code) ==
    [decodable |-> TRUE, error_code |-> code, error_msg |-> ErrorMsg(code),
     response |-> EmptyDict, cookies |-> EmptyDict]
NotJSON ==
    [decodable |-> FALSE, error_code |-> 0, error_msg |-> "",
     response |-> EmptyDict, cookies |-> EmptyDict]

PlainResponses ==
    {Body(EmptyDict, EmptyDict), NotJSON} \cup {ErrorBody(c) : c \in ErrorCodes}
TokenResponses ==
    {Body(p, j) : p \in {EmptyDict} \cup {DictSet(EmptyDict, "token", t) : t \in Tokens},
                  j \in {EmptyDict} \cup {DictSet(EmptyDict, SID, s) : s \in Sids}}
    \cup {NotJSON} \cup {ErrorBody(c) : c \in ErrorCodes}

\* --------------------------------------------------------------- session
\* Attribute lookup self._cookies: the instance's own dict when it has
\* assigned one, the class's dict otherwise.
Cookies(i) == IF hasOwn[i] THEN ownCookies[i] ELSE _cookies

\* _pre_req: writes the token into the headers dict it was given, when a
\* token is stored, and returns that dict.
_pre_req(i, headers) ==
    IF Truthy(_token[i]) THEN DictSet(headers, XSC, _token[i]) ELSE headers

_kwarg_builder(i, headers) == [headers |-> headers, cookies |-> Cookies(i)]

\* The requests function each verb method calls.
HttpMethod(v) ==
    CASE v = "head" -> "POST"
      [] v = "get" -> "GET"
      [] v = "post" -> "POST"
      [] v = "put" -> "PUT"
      [] v = "patch" -> "PATCH"
      [] v = "delete" -> "DELETE"

\* raise APIError when the decoded body carries a truthy error_code; a body
\* that does not decode raises ValueError, which is swallowed.
_resp_error_check_swallow(r) == NoExc
_resp_error_check_strict(r) ==
    IF ~r.decodable THEN ValueError
    ELSE IF Truthy(r.error_code) THEN APIError(r.error_code, r.error_msg)
    ELSE NoExc
_resp_error_check(r) ==
    IF ~r.decodable THEN NoExc
    ELSE IF Truthy(r.error_code) THEN APIError(r.error_code, r.error_msg)
    ELSE NoExc

\* The `headers` argument of a verb call: omitted (the method's default dict
\* is used) or a dict of the caller's.
Omitted == [given |-> FALSE, dict |-> EmptyDict]
Given(d) == [given |-> TRUE, dict |-> d]
HeaderArgs == {Omitted, Given(EmptyDict)}

\* The dict the verb method hands to _pre_req.
HeadersOf(v, h) == IF h.given THEN h.dict ELSE defaults[v]

\* The request a verb method hands to the transport.
Request(op, i, v, path, h, body) ==
    LET kw == _kwarg_builder(i, _pre_req(i, HeadersOf(v, h)))
    IN  [op |-> op, self |-> i, verb |-> v, method |-> HttpMethod(v), path |-> path,
         hdrGiven |-> h.given, headers |-> kw.headers, cookies |-> kw.cookies,
         json |-> body]

NoRequest ==
    [op |-> "none", self |-> 0, verb |-> "none", method |-> "none", path |-> "none",
     hdrGiven |-> FALSE, headers |-> EmptyDict, cookies |-> EmptyDict,
     json |-> EmptyDict]

\* op is the public method the caller called: a verb method itself, or login,
\* logout or analysis, which call one; hdrGiven tells whether the caller
\* of the verb method passed a headers dict.
\* What a verb call leaves behind before the response is looked at: the
\* request is sent, and _pre_req has written into the default dict when the
\* caller gave none.
Send(op, i, v, path, h, body) ==
    /\ sent' = Request(op, i, v, path, h, body)
    /\ defaults' = IF h.given THEN defaults
                   ELSE [defaults EXCEPT ![v] = _pre_req(i, defaults[v])]

Paths == {"system"}

\* What a call returned to its caller: a response, or nothing (the call
\* raised, or it is login or logout, which return None).
NoReturn == [some |-> FALSE, value |-> NotJSON]
Returned(r) == [some |-> TRUE, value |-> r]

\* A verb method called by the user of the client.
Verb(i, v, path, h, r) ==
    /\ pc = "idle"
    /\ Send(v, i, v, path, h, EmptyDict)
    /\ raised' = _resp_error_check(r)
    /\ returned' = IF _resp_error_check(r) = NoExc THEN Returned(r) ELSE NoReturn
    /\ wire' = r
    /\ UNCHANGED <<_token, _cookies, ownCookies, hasOwn, analysisVars>>

head(i, path, h, r) == Verb(i, "head", path, h, r)
get(i, path, h, r) == Verb(i, "get", path, h, r)
post(i, path, h, r) == Verb(i, "post", path, h, r)
put(i, path, h, r) == Verb(i, "put", path, h, r)
patch(i, path, h, r) == Verb(i, "patch", path, h, r)
delete(i, path, h, r) == Verb(i, "delete", path, h, r)

\* A login that keeps the token and drops the cookie.
login_token_only(i, r) ==
    /\ pc = "idle"
    /\ Send("login", i, "post", "token", Omitted, EmptyDict)
    /\ returned' = NoReturn
    /\ wire' = r
    /\ UNCHANGED <<analysisVars, _cookies, ownCookies, hasOwn>>
    /\ LET exc == _resp_error_check(r) IN
       IF exc # NoExc THEN
            /\ raised' = exc
            /\ UNCHANGED _token
       ELSE IF ~r.decodable THEN
            /\ raised' = ValueError
            /\ UNCHANGED _token
       ELSE IF ~HasKey(r.response, "token") THEN
            /\ raised' = KeyError
            /\ UNCHANGED _token
       ELSE /\ _token' = [_token EXCEPT ![i] = r.response["token"]]
            /\ raised' = NoExc

\* login: post to 'token'; then store the token; then store the cookie.
\* Each of the two stores can raise KeyError, the second after the first
\* has been done.
login(i, r) ==
    /\ pc = "idle"
    /\ Send("login", i, "post", "token", Omitted, EmptyDict)
    /\ returned' = NoReturn
    /\ wire' = r
    /\ UNCHANGED analysisVars
    /\ LET exc == _resp_error_check(r) IN
       IF exc # NoExc THEN
            /\ raised' = exc
            /\ UNCHANGED <<_token, _cookies, ownCookies, hasOwn>>
       ELSE IF ~r.decodable THEN
            /\ raised' = ValueError
            /\ UNCHANGED <<_token, _cookies, ownCookies, hasOwn>>
       ELSE IF ~HasKey(r.response, "token") THEN
            /\ raised' = KeyError
            /\ UNCHANGED <<_token, _cookies, ownCookies, hasOwn>>
       ELSE /\ _token' = [_token EXCEPT ![i] = r.response["token"]]
            /\ UNCHANGED hasOwn
            /\ IF ~HasKey(r.cookies, SID) THEN
                    /\ raised' = KeyError
                    /\ UNCHANGED <<_cookies, ownCookies>>
               ELSE /\ raised' = NoExc
                    /\ IF hasOwn[i]
                       THEN /\ ownCookies' = [ownCookies EXCEPT
                                   ![i] = DictSet(@, SID, r.cookies[SID])]
                            /\ UNCHANGED _cookies
                       ELSE /\ _cookies' = DictSet(_cookies, SID, r.cookies[SID])
                            /\ UNCHANGED ownCookies

\* logout: delete 'token'; when that returns, forget the token and give the
\* instance a fresh, empty cookie dict.
logout(i, r) ==
    /\ pc = "idle"
    /\ Send("logout", i, "delete", "token", Omitted, EmptyDict)
    /\ returned' = NoReturn
    /\ wire' = r
    /\ UNCHANGED analysisVars
    /\ LET exc == _resp_error_check(r) IN
       IF exc # NoExc THEN
            /\ raised' = exc
            /\ UNCHANGED <<_token, _cookies, ownCookies, hasOwn>>
       ELSE /\ raised' = NoExc
            /\ _token' = [_token EXCEPT ![i] = None]
            /\ ownCookies' = [ownCookies EXCEPT ![i] = EmptyDict]
            /\ hasOwn' = [hasOwn EXCEPT ![i] = TRUE]
            /\ UNCHANGED _cookies


\* -------------------------------------------------------------- analysis
\* The numbers of a response travel as decimal strings, modelled as their
\* digit sequences; int() reads them back.
RECURSIVE Str(_)
Str(n) == IF n < 10 THEN <<n>> ELSE Append(Str(n \div 10), n % 10)

RECURSIVE int(_)
int(s) ==
    IF Len(s) = 1 THEN s[1]
    ELSE 10 * int(SubSeq(s, 1, Len(s) - 1)) + s[Len(s)]

\* A value a page handler returns, or the `results` of a response: a list,
\* or something that is no list; `items` is what iterating over it yields.
\* NotAList is a non-list that can be iterated over (a tuple, a dict).
List(items) == [isList |-> TRUE, items |-> items]
NotAList == [isList |-> FALSE, items |-> <<0>>]
isinstance_list(v) == v.isList

\* The page option: "all", or a page number.
PageAll == [all |-> TRUE, n |-> 0]
NoOpts == [page |-> PageAll, page_size |-> 0, page_obj |-> "return_results"]
NoQuery == [startOffset |-> 0, endOffset |-> 0]
NoKwargs == [type |-> "", sourceType |-> "", query |-> NoQuery]
NoServer == [mode |-> "any", records |-> 0]
NoResult == [returned |-> FALSE, value |-> <<>>]
PageN(n) == [all |-> FALSE, n |-> n]
Pages == {PageAll} \cup {PageN(n) : n \in 0..MaxPage}
PageSizes == (-1)..MaxPageSize
PageObjs == {"return_results", "custom"}

\* The filter tuples a caller passes.
FilterTuples == {<<"ip", "=", "10.0.0.0/16">>, <<"severity", ">", "2">>}
FilterSeqs == UNION {[1..n -> FilterTuples] : n \in 0..MaxFilters}
\* The filters of the calls whose sweep is followed: they play no part in it.
SweepFilterSeqs == {<<>>, <<<<"ip", "=", "10.0.0.0/16">>>>}

\* A keyword argument of analysis: passed with a value, or absent.
Arg(v) == [given |-> TRUE, value |-> v]
NoPageArg == [given |-> FALSE, value |-> PageAll]
NoPageSizeArg == [given |-> FALSE, value |-> 0]
NoTypeArg == [given |-> FALSE, value |-> ""]
PageArgs == {NoPageArg} \cup {Arg(p) : p \in Pages}
PageSizeArgs == {NoPageSizeArg} \cup {Arg(n) : n \in PageSizes}
Types == {"vuln", "event"}
TypeArgs == {NoTypeArg} \cup {Arg(t) : t \in Types}
NoArgs == [filters |-> <<>>, page |-> NoPageArg, page_size |-> NoPageSizeArg,
           type |-> NoTypeArg]

\* if 'x' not in kwargs: kwargs['x'] = d
DefaultPageSize == 1000
Default(arg, d) == IF arg.given THEN arg.value ELSE d

\* The query built from the filters when the caller passes no query.
BuildQueryOneBased(filters, tool, type, page, page_size) ==
    [tool |-> tool,
     type |-> type,
     filters |-> [k \in 1..Len(filters) |->
                    [filterName |-> filters[k][1], operator |-> filters[k][2],
                     value |-> filters[k][3], type |-> type]],
     startOffset |-> IF page.all THEN 0 ELSE (page.n - 1) * page_size,
     endOffset |-> IF page.all THEN page_size ELSE page.n * page_size]
BuildQueryReversed(filters, tool, type, page, page_size) ==
    [tool |-> tool,
     type |-> type,
     filters |-> [k \in 1..Len(filters) |->
                    [filterName |-> filters[Len(filters) + 1 - k][1],
                     operator |-> filters[Len(filters) + 1 - k][2],
                     value |-> filters[Len(filters) + 1 - k][3], type |-> type]],
     startOffset |-> IF page.all THEN 0 ELSE page.n * page_size,
     endOffset |-> IF page.all THEN page_size ELSE (page.n + 1) * page_size]
BuildQuery(filters, tool, type, page, page_size) ==
    [tool |-> tool,
     type |-> type,
     filters |-> [k \in 1..Len(filters) |->
                    [filterName |-> filters[k][1], operator |-> filters[k][2],
                     value |-> filters[k][3], type |-> type]],
     startOffset |-> IF page.all THEN 0 ELSE page.n * page_size,
     endOffset |-> IF page.all THEN page_size ELSE (page.n + 1) * page_size]

\* The queries a caller passes ready-made.
CallerOffsets == {<<0, 2>>, <<1, 2>>}
CallerQueries ==
    {[tool |-> "sumip", type |-> "vuln", filters |-> <<>>,
      startOffset |-> o[1], endOffset |-> o[2]] : o \in CallerOffsets}
NoQueryArg == [given |-> FALSE, query |-> NoQuery]
QueryArgs == {NoQueryArg} \cup {[given |-> TRUE, query |-> q] : q \in CallerQueries}

\* kwargs['query']: the caller's query when there is one, the built one
\* otherwise.
QueryForBuilt(q, filters, type, page, page_size) ==
    BuildQuery(filters, "sumip", type, page, page_size)
QueryFor(q, filters, type, page, page_size) ==
    IF q.given THEN q.query
    ELSE BuildQuery(filters, "sumip", type, page, page_size)

\* count after a page: the response's endOffset in "all" mode, its
\* totalRecords for a single page.
NextCountEnd(page, payload) == int(payload.endOffset)
NextCount(page, payload) ==
    IF page.all THEN int(payload.endOffset) ELSE int(payload.totalRecords)

\* The loop test of analysis.
LoopCondGe(total, cnt) == total >= cnt
LoopCond(total, cnt) == total > cnt

\* The offsets of the query after a page, in "all" mode.
AdvanceByPage(query, cnt, page_size) ==
    [query EXCEPT !.startOffset = query.startOffset + page_size,
                  !.endOffset = query.startOffset + 2 * page_size]
AdvanceStartOnly(query, cnt, page_size) ==
    [query EXCEPT !.startOffset = cnt]
AdvanceOffByOne(query, cnt, page_size) ==
    [query EXCEPT !.startOffset = cnt + 1, !.endOffset = cnt + 1 + page_size]
Advance(query, cnt, page_size) ==
    [query EXCEPT !.startOffset = cnt, !.endOffset = cnt + page_size]

\* for item in out: output.append(item), when out is a list.
AggregateNoCheck(acc, out) == acc \o out.items
Aggregate(acc, out) == IF isinstance_list(out) THEN acc \o out.items ELSE acc

\* The server of one sweep: an arbitrary one, or a well-behaved one that
\* holds `records` records, numbered from 1.
Servers == {[mode |-> "any", records |-> 0]}
           \cup {[mode |-> "honest", records |-> t] : t \in 0..MaxRecords}

Min(a, b) == IF a < b THEN a ELSE b
Slice(from, to) == [k \in 1..(IF to > from THEN to - from ELSE 0) |-> from + k]

AnalysisBody(results, total, end) ==
    Body([results |-> results, totalRecords |-> Str(total), endOffset |-> Str(end)],
         EmptyDict)

\* The `results` an arbitrary server sends.  A caller's own page handler
\* does not read them, and they are not varied for it.
ServerResults(page_obj) ==
    IF page_obj = "return_results"
    THEN {NotAList, List(<<1, 2>>), List(<<3>>)}
    ELSE {List(<<>>)}

\* What a caller's own page handler may return.
CustomReturns == {NotAList, List(<<1, 2>>), List(<<3>>)}

\* The answers to the request just sent.  An arbitrary server may answer
\* anything, except that it ends an "all" sweep at its MaxReq-th request.
AnalysisResponses ==
    IF server.mode = "honest" THEN
        LET start == requests[Len(requests)].startOffset
            end == Min(start + opts.page_size, server.records)
        IN  {AnalysisBody(List(Slice(start, end)), server.records, end)}
    ELSE
        {AnalysisBody(v, te[1], te[2]) :
            v \in ServerResults(opts.page_obj),
            te \in {x \in (0..MaxTotal) \X (0..MaxTotal) :
                      opts.page.all /\ Len(requests) >= MaxReq => ~(x[1] > x[2])}}
        \cup {NotJSON} \cup {ErrorBody(c) : c \in ErrorCodes}

\* analysis(*filters, **kwargs) up to the loop: the defaults, the options,
\* the query, and the first loop test.
analysis(i, filters, pageArg, sizeArg, page_obj, typeArg, q, srv) ==
    LET page == Default(pageArg, PageAll)
        page_size == Default(sizeArg, DefaultPageSize)
        type == Default(typeArg, "vuln")
    IN
    /\ pc = "idle"
    /\ pc' = IF LoopCond(page_size, 0) THEN "post" ELSE "return"
    /\ args' = [filters |-> filters, page |-> pageArg, page_size |-> sizeArg,
                type |-> typeArg]
    /\ self' = i
    /\ opts' = [page |-> page, page_size |-> page_size, page_obj |-> page_obj]
    /\ built' = ~q.given
    /\ callerQuery' = q.query
    /\ kwargs' = [type |-> type, sourceType |-> "cumulative",
                  query |-> QueryFor(q, filters, type, page, page_size)]
    /\ count' = 0
    /\ total_records' = page_size
    /\ output' = <<>>
    /\ resp' = NotJSON
    /\ wire' = NotJSON
    /\ result' = NoResult
    /\ inflight' = 0
    /\ requests' = <<>>
    /\ pages' = <<>>
    /\ server' = srv
    /\ raised' = NoExc
    /\ UNCHANGED <<sessionVars, sent, returned>>

\* self.post('analysis', json=kwargs), up to the request being on the wire.
PostAnalysis ==
    /\ pc = "post"
    /\ pc' = "await"
    /\ Send("analysis", self, "post", "analysis", Omitted, kwargs)
    /\ requests' = Append(requests, kwargs.query)
    /\ inflight' = inflight + 1
    /\ UNCHANGED <<_token, _cookies, ownCookies, hasOwn, raised, returned, args,
                   self, opts, kwargs, built, callerQuery, count, total_records, output,
                   resp, wire, result, pages, server>>

\* The server answers and post returns the response or raises.
Receive ==
    /\ pc = "await"
    /\ inflight' = inflight - 1
    /\ \E r \in AnalysisResponses :
       /\ wire' = r
       /\ LET exc == _resp_error_check(r) IN
          IF exc # NoExc
          THEN /\ pc' = "raised"
               /\ raised' = exc
               /\ UNCHANGED resp
          ELSE /\ pc' = "handler"
               /\ resp' = r
               /\ UNCHANGED raised
    /\ UNCHANGED <<sessionVars, sent, returned, args, self, opts, kwargs, built,
                   callerQuery,
                   count, total_records, output, result, requests, pages,
                   server>>

\* The default page handler.
return_results_empty(r) == List(<<>>)
return_results(r) == r.response.results

\* What the page handler in use may return for the response at hand.
PageObjReturns ==
    IF opts.page_obj = "return_results" THEN {return_results(resp)}
    ELSE CustomReturns

\* out = opts['page_obj'](**opts['page_kwargs']) and the loop over out.  The
\* default handler decodes the body, which raises when it is no JSON.
Handler ==
    /\ pc = "handler"
    /\ IF opts.page_obj = "return_results" /\ ~resp.decodable
       THEN /\ pc' = "raised"
            /\ raised' = ValueError
            /\ UNCHANGED <<output, pages>>
       ELSE \E out \in PageObjReturns :
            /\ pc' = "update"
            /\ pages' = Append(pages, out)
            /\ output' = Aggregate(output, out)
            /\ UNCHANGED raised
    /\ UNCHANGED <<sessionVars, sent, returned, args, self, opts, kwargs, built,
                   callerQuery,
                   count, total_records, resp, wire, result, inflight, requests,
                   server>>

\* total_records, count and the offsets after a page, and the loop test.
Update ==
    /\ pc = "update"
    /\ IF ~resp.decodable
       THEN /\ pc' = "raised"
            /\ raised' = ValueError
            /\ UNCHANGED <<count, total_records, kwargs>>
       ELSE LET total == int(resp.response.totalRecords)
                cnt == NextCount(opts.page, resp.response)
            IN  /\ total_records' = total
                /\ count' = cnt
                /\ kwargs' = IF opts.page.all
                             THEN [kwargs EXCEPT !.query =
                                     Advance(kwargs.query, cnt, opts.page_size)]
                             ELSE kwargs
                /\ pc' = IF LoopCond(total, cnt) THEN "post" ELSE "return"
                /\ UNCHANGED raised
    /\ UNCHANGED <<sessionVars, sent, returned, args, self, opts, built,
                   callerQuery, output,
                   resp, wire, result, inflight, requests, pages, server>>

\* return output
Return ==
    /\ pc = "return"
    /\ pc' = "returned"
    /\ result' = [returned |-> TRUE, value |-> output]
    /\ UNCHANGED <<sessionVars, obsVars, args, self, opts, kwargs, built,
                   callerQuery, count, total_records, output, resp, inflight,
                   requests, pages, server>>

\* ------------------------------------------------------------------ init
\* The module is loaded and the clients are constructed: no instance has a
\* token or a cookie dict of its own, the class's cookie dict and every
\* default headers dict are empty, and no analysis call is running.

Init ==
    /\ _token = [i \in Clients |-> None]
    /\ _cookies = EmptyDict
    /\ ownCookies = [i \in Clients |-> EmptyDict]
    /\ hasOwn = [i \in Clients |-> FALSE]
    /\ defaults = [v \in Verbs |-> EmptyDict]
    /\ sent = NoRequest
    /\ raised = NoExc
    /\ returned = NoReturn
    /\ pc = "idle"
    /\ args = NoArgs
    /\ self = 0
    /\ opts = NoOpts
    /\ kwargs = NoKwargs
    /\ built = FALSE
    /\ callerQuery = NoQuery
    /\ count = 0
    /\ total_records = 0
    /\ output = <<>>
    /\ resp = NotJSON
    /\ wire = NotJSON
    /\ result = NoResult
    /\ inflight = 0
    /\ requests = <<>>
    /\ pages = <<>>
    /\ server = NoServer

\* ------------------------------------------------- the session's behaviours
\* Logins and logouts, and between them calls of the verb methods that the
\* client itself uses (post in login and analysis, delete in logout) and of
\* two it does not.
SessionNext ==
    \/ \E i \in Clients, r \in TokenResponses : login(i, r)
    \/ \E i \in Clients, r \in PlainResponses : logout(i, r)
    \/ \E i \in Clients, path \in Paths, h \in HeaderArgs, r \in PlainResponses :
          \/ head(i, path, h, r)
          \/ get(i, path, h, r)
          \/ post(i, path, h, r)
          \/ delete(i, path, h, r)

SessionSpec == Init /\ [][SessionNext]_vars

\* ---------------------------------------------- the verb methods' behaviours
\* Calls of all six verb methods, by clients that have logged in or not.
VerbNext ==
    \/ \E i \in Clients, r \in TokenResponses : login(i, r)
    \/ \E i \in Clients, path \in Paths, h \in HeaderArgs, r \in PlainResponses :
          \/ head(i, path, h, r)
          \/ get(i, path, h, r)
          \/ post(i, path, h, r)
          \/ put(i, path, h, r)
          \/ patch(i, path, h, r)
          \/ delete(i, path, h, r)

VerbSpec == Init /\ [][VerbNext]_vars

\* ------------------------------------------------ one analysis call's behaviours
\* The calls pass page and page_size and leave the type to its default.
Next ==
    \/ \E i \in Clients, filters \in SweepFilterSeqs, page \in Pages,
          page_size \in PageSizes, page_obj \in PageObjs, q \in QueryArgs,
          srv \in Servers :
          analysis(i, filters, Arg(page), Arg(page_size), page_obj, NoTypeArg,
                   q, srv)
    \/ PostAnalysis
    \/ Receive
    \/ Handler
    \/ Update
    \/ Return

Spec == Init /\ [][Next]_vars

\* The call runs on one thread of blocking calls: whatever step is due is
\* taken, and the transport returns an answer to every request.
FairSpec == Spec /\ WF_vars(Next)

\* ------------------------------------------- the query analysis builds
\* The calls are varied in every argument, absent ones included, and are
\* followed against a well-behaved server that holds no record.
QueryServers == {[mode |-> "honest", records |-> 0]}

QueryNext ==
    \/ \E i \in Clients, filters \in FilterSeqs, pageArg \in PageArgs,
          sizeArg \in PageSizeArgs, typeArg \in TypeArgs, q \in QueryArgs,
          srv \in QueryServers :
          analysis(i, filters, pageArg, sizeArg, "return_results", typeArg,
                   q, srv)
    \/ PostAnalysis
    \/ Receive
    \/ Handler
    \/ Update
    \/ Return

QuerySpec == Init /\ [][QueryNext]_vars

\* ================================================================ claims
\* The numbers the last returned response reported.
ReportedEnd == int(resp.response.endOffset)
ReportedTotal == int(resp.response.totalRecords)
\* The sweep has completed at least one iteration and stands at the loop
\* test's outcome.
AfterIteration == pc \in {"post", "return", "returned"} /\ Len(pages) >= 1

\* C1: in "all" mode with page_size > 0, after every successful fetch the
\* driver goes on to another request if and only if the endOffset of that
\* response is strictly below its totalRecords; otherwise it returns the
\* accumulated output, and as many requests were made as pages were handled.
C1_ContinueIffEndBelowTotal ==
    (AfterIteration /\ opts.page.all /\ opts.page_size > 0) =>
        /\ (pc = "post") <=> (ReportedEnd < ReportedTotal)
        /\ pc = "post" => ENABLED PostAnalysis
        /\ pc # "post" => Len(requests) = Len(pages)
        /\ pc = "returned" => result = [returned |-> TRUE, value |-> output]

\* A sweep that went on after its first page and returned after its second.
C1_Witness ==
    /\ pc = "returned" /\ opts.page.all /\ opts.page_size > 0
    /\ server.mode = "any" /\ Len(requests) = 2
    /\ ReportedEnd >= ReportedTotal

\* The lists among the handler's return values, joined in order.
RECURSIVE Flatten(_)
Flatten(ps) ==
    IF ps = <<>> THEN <<>>
    ELSE LET last == ps[Len(ps)]
         IN  Flatten(SubSeq(ps, 1, Len(ps) - 1))
                \o (IF last.isList THEN last.items ELSE <<>>)

\* C4: the output, and the list analysis returns, is the concatenation in
\* fetch order of the page handler's return values that are lists; a
\* non-list return value adds nothing.
C4_OutputIsConcatenation ==
    /\ pc # "idle" => output = Flatten(pages)
    /\ pc = "returned" => result.value = Flatten(pages)

\* A sweep whose first page's handler returned a non-list and whose second
\* returned a list, and a sweep of two lists.
C4_Witness ==
    /\ pc = "returned" /\ Len(pages) = 2
    /\ ~pages[1].isList /\ pages[2] = List(<<1, 2>>)
    /\ result.value = <<1, 2>>

\* C5: in single-page mode with page_size > 0 exactly one request is made,
\* whatever totalRecords the server reports: none follows the first, and
\* the call ends only after it.
C5_SinglePageOneRequest ==
    (pc # "idle" /\ ~opts.page.all /\ opts.page_size > 0) =>
        /\ Len(requests) <= 1
        /\ pc = "post" => Len(requests) = 0
        /\ pc \in {"return", "returned", "raised"} => Len(requests) = 1

\* A single page returned although the server reported more records than
\* (N+1)*page_size and an endOffset below them.
C5_Witness ==
    /\ pc = "returned" /\ ~opts.page.all /\ opts.page_size > 0
    /\ ReportedTotal > (opts.page.n + 1) * opts.page_size
    /\ ReportedEnd < ReportedTotal

\* C6: when the response to a request of the sweep carries an error code,
\* analysis raises APIError with that code and message, returns nothing,
\* has invoked the page handler for the earlier pages only, and makes no
\* further request; and it raises APIError in no other case.
C6_ErrorAbortsSweep ==
    /\ (wire.decodable /\ Truthy(wire.error_code)) =>
            /\ pc = "raised"
            /\ raised = APIError(wire.error_code, wire.error_msg)
            /\ result = NoResult
            /\ Len(pages) = Len(requests) - 1
            /\ inflight = 0
            /\ ~ENABLED PostAnalysis
    /\ (pc # "idle" /\ raised.type = "APIError") =>
            wire.decodable /\ Truthy(wire.error_code)

\* The second request of a sweep failed after the first page's items had
\* been accumulated.
C6_Witness ==
    /\ pc = "raised" /\ raised.type = "APIError"
    /\ Len(requests) = 2 /\ Len(output) > 0

\* ------------------------------------------------------------------- C2
Honest == pc # "idle" /\ server.mode = "honest"
CeilDiv(a, b) == (a + b - 1) \div b
Max(a, b) == IF a > b THEN a ELSE b
ExpectedRequests == Max(1, CeilDiv(server.records, opts.page_size))
\* The query the sweep started from began at offset 0.
StartsAtZero == built \/ callerQuery.startOffset = 0

\* What C2 says of a finished sweep against a well-behaved server.
C2_Final(pre) ==
    (pc = "returned" /\ Honest /\ opts.page.all /\ opts.page_size > 0 /\ pre) =>
        /\ Len(requests) = ExpectedRequests
        /\ \A k \in 1..Len(requests) :
              requests[k].startOffset = (k - 1) * opts.page_size
        /\ opts.page_obj = "return_results" =>
              result.value = Slice(0, server.records)

\* C2 as stated: against a server that holds T records and answers
\* totalRecords = T, endOffset = min(startOffset + P, T), every "all" call
\* with page_size P > 0 returns after max(1, ceil(T/P)) requests carrying
\* startOffset 0, P, 2P, ..., with the T records as output.
C2_AsStated == C2_Final(TRUE)

\* C2 amended: the same, for a call whose query starts at offset 0 (every
\* query built from filters; a caller's query only if it says so), the
\* output being that of the default page handler; and the call does return.
C2_HonestSweep ==
    /\ [](C2_Final(StartsAtZero))
    /\ (pc = "post" /\ Honest /\ opts.page.all /\ opts.page_size > 0)
          ~> (pc = "returned")

\* Five records fetched in three pages of two.
C2_Witness ==
    /\ pc = "returned" /\ Honest /\ opts.page.all /\ built
    /\ opts.page_size = 2 /\ server.records = 5
    /\ Len(requests) = 3 /\ result.value = <<1, 2, 3, 4, 5>>

\* ------------------------------------------------------------------- C3
\* C3 as stated, for a query built from filters: in "all" mode, after N
\* completed iterations with more records to come, startOffset = N * P,
\* whatever endOffset the server reported.
C3_AsStated ==
    (pc = "post" /\ opts.page.all /\ built) =>
        kwargs.query.startOffset = Len(pages) * opts.page_size

\* C3 amended: in "all" mode, after N >= 1 completed iterations startOffset
\* is the endOffset the server reported in the N-th response and endOffset
\* is page_size more (before the first, a built query has 0 and page_size);
\* against a server that reports endOffset = startOffset + P while records
\* remain, that is N * P.
C3_StartOffsetFollowsServer ==
    (pc \in {"post", "return", "returned"} /\ opts.page.all) =>
        /\ (Len(pages) = 0 /\ built) =>
              /\ kwargs.query.startOffset = 0
              /\ kwargs.query.endOffset = opts.page_size
        /\ Len(pages) >= 1 =>
              /\ kwargs.query.startOffset = ReportedEnd
              /\ kwargs.query.endOffset = ReportedEnd + opts.page_size
        /\ (pc = "post" /\ built /\ Honest) =>
              kwargs.query.startOffset = Len(pages) * opts.page_size

\* After one iteration the server reported an endOffset other than P, and
\* the next request starts there.
C3_Witness ==
    /\ pc = "post" /\ opts.page.all /\ built /\ Len(pages) = 1
    /\ ReportedEnd # opts.page_size
    /\ kwargs.query.startOffset = ReportedEnd

\* ------------------------------------------------------------------- C7
SameButOffsets(q, c) ==
    q.tool = c.tool /\ q.type = c.type /\ q.filters = c.filters

\* C7 as stated: a query passed by the caller is never modified: every
\* request carries it unchanged and it is unchanged at every point of the
\* call, in "all" and in single-page mode.
C7_AsStated ==
    (pc # "idle" /\ ~built) =>
        /\ kwargs.query = callerQuery
        /\ \A k \in 1..Len(requests) : requests[k] = callerQuery

\* C7 amended: the first request carries the caller's query unchanged; in
\* single-page mode it is never modified; in "all" mode every completed
\* iteration sets its startOffset to the reported endOffset and its
\* endOffset to that plus page_size, and nothing else, so that later
\* requests and the query on return carry the advanced offsets.
C7_CallerQueryOnlyAdvanced ==
    (pc # "idle" /\ ~built) =>
        /\ Len(requests) >= 1 => requests[1] = callerQuery
        /\ ~opts.page.all =>
              /\ kwargs.query = callerQuery
              /\ \A k \in 1..Len(requests) : requests[k] = callerQuery
        /\ opts.page.all =>
              /\ SameButOffsets(kwargs.query, callerQuery)
              /\ \A k \in 2..Len(requests) :
                    /\ SameButOffsets(requests[k], callerQuery)
                    /\ requests[k].endOffset =
                          requests[k].startOffset + opts.page_size
              /\ pc = "returned" =>
                    kwargs.query =
                        IF Len(pages) = 0 THEN callerQuery
                        ELSE [callerQuery EXCEPT
                                !.startOffset = ReportedEnd,
                                !.endOffset = ReportedEnd + opts.page_size]

\* A sweep over a caller's query whose second request carried other offsets
\* than the caller passed.
C7_Witness ==
    /\ pc = "returned" /\ ~built /\ opts.page.all
    /\ Len(requests) = 2 /\ requests[1] = callerQuery
    /\ requests[2] # callerQuery

\* ------------------------------------------------------------------- C8
\* C8: a verb call made without caller-supplied headers sends the token
\* header if and only if the client has a token stored, and then with that
\* token as its value.
C8_TokenHeaderIffStored ==
    (sent.op \in Verbs /\ ~sent.hdrGiven) =>
        /\ HasKey(sent.headers, XSC) <=> Truthy(_token[sent.self])
        /\ HasKey(sent.headers, XSC) => sent.headers[XSC] = _token[sent.self]

\* ------------------------------------------------------------------- C9
\* C9: once logout's DELETE has been answered, whatever the answer, the
\* client has no token and its cookie set is empty.
C9_LogoutAlwaysClears ==
    sent.op = "logout" =>
        /\ _token[sent.self] = None
        /\ Cookies(sent.self) = EmptyDict

\* ------------------------------------------------------------------ C10
\* C10: a logout that follows a logout on the same client does not raise
\* and leaves the client without token and with an empty cookie set,
\* whatever the server answers.
C10_SecondLogoutNeverRaises ==
    [][\A i \in Clients :
         (sent.op = "logout" /\ sent.self = i
            /\ \E r \in PlainResponses : logout(i, r))
         => /\ raised' = NoExc
            /\ _token'[i] = None
            /\ (IF hasOwn'[i] THEN ownCookies'[i] ELSE _cookies') = EmptyDict]_vars

\* ------------------------------------------------------------------ C11
\* C11: an analysis call with page_size <= 0 ends in an error before any
\* request is made: it does not reach its return, and returns no result.
C11_NonPositivePageSizeRejected ==
    (pc # "idle" /\ opts.page_size <= 0) =>
        /\ pc = "raised"
        /\ Len(requests) = 0
        /\ result = NoResult

\* ------------------------------------------------------------------ C12
\* C12: a login on one client changes neither the token nor the cookie set
\* of any other client, so that a client that has not logged in itself has
\* no token and an empty cookie set.
C12_LoginLeavesOthersAlone ==
    [][\A i \in Clients, j \in Clients :
         (i # j /\ \E r \in TokenResponses : login(i, r))
         => /\ _token'[j] = _token[j]
            /\ (IF hasOwn'[j] THEN ownCookies'[j] ELSE _cookies') = Cookies(j)]_vars

\* ------------------------------------------------------------------ C13
\* C13: in "all" mode with a query built from filters, every request of
\* the sweep, and the query at every point of the call, has
\* endOffset - startOffset = page_size, whatever the server reports.
C13_WindowIsPageSize ==
    (pc # "idle" /\ opts.page.all /\ built) =>
        /\ \A k \in 1..Len(requests) :
              requests[k].endOffset - requests[k].startOffset = opts.page_size
        /\ kwargs.query.endOffset - kwargs.query.startOffset = opts.page_size

\* A second request that starts where the first response said the page
\* ended, which is not at page_size.
C13_Witness ==
    /\ opts.page.all /\ built /\ server.mode = "any"
    /\ Len(requests) = 2
    /\ requests[2].startOffset # opts.page_size
    /\ requests[2].endOffset = requests[2].startOffset + opts.page_size

\* ------------------------------------------------------------------ C14
\* C14: the first request of a call whose query is built from filters
\* carries startOffset 0 and endOffset P in "all" mode, and N * P and
\* (N + 1) * P for page N, where P is the page_size passed, or 1000 when
\* none is, and the page is "all" when none is passed.
C14_InitialOffsets ==
    (built /\ Len(requests) >= 1) =>
        LET P == IF args.page_size.given THEN args.page_size.value ELSE 1000
            page == IF args.page.given THEN args.page.value ELSE PageAll
        IN  /\ P > 0
            /\ page.all =>
                  /\ requests[1].startOffset = 0
                  /\ requests[1].endOffset = P
            /\ ~page.all =>
                  /\ requests[1].startOffset = page.n * P
                  /\ requests[1].endOffset = (page.n + 1) * P

\* Page 1 asked for without a page_size: the request covers 1000 to 2000.
C14_Witness ==
    /\ built /\ ~args.page_size.given /\ args.page = Arg(PageN(1))
    /\ Len(requests) = 1
    /\ requests[1].startOffset = 1000 /\ requests[1].endOffset = 2000

\* ------------------------------------------------------------------ C15
\* C15: the query built from the filter tuples F has as many filters as F
\* has tuples, the k-th carrying the name, operator and value of the k-th
\* tuple, and each carrying the type of the query, which is the type
\* passed, or "vuln" when none is; and the requests carry them.
C15_FiltersPreserved ==
    (pc # "idle" /\ built) =>
        LET t == IF args.type.given THEN args.type.value ELSE "vuln"
            F == args.filters
        IN  /\ kwargs.query.type = t
            /\ Len(kwargs.query.filters) = Len(F)
            /\ \A k \in 1..Len(F) :
                  kwargs.query.filters[k] =
                      [filterName |-> F[k][1], operator |-> F[k][2],
                       value |-> F[k][3], type |-> t]
            /\ \A k \in 1..Len(requests) :
                  /\ requests[k].filters = kwargs.query.filters
                  /\ requests[k].type = t

\* Two different filters and a type other than the default, sent.
C15_Witness ==
    /\ built /\ Len(requests) = 1
    /\ Len(args.filters) = 2 /\ args.filters[1] # args.filters[2]
    /\ args.type = Arg("event")
    /\ requests[1].filters[2].filterName = args.filters[2][1]

\* ------------------------------------------------------------------ C16
\* The response carries a token and a session cookie, and no error code.
LoginComplete(r) ==
    /\ r.decodable /\ ~Truthy(r.error_code)
    /\ HasKey(r.response, "token") /\ HasKey(r.cookies, SID)

\* C16: after a login whose response carries token, session cookie and no
\* error code, the client holds that token and that cookie and no error
\* was raised; after one whose response carries an error code, or lacks
\* the token, or lacks the cookie, an error was raised.
C16_LoginStoresOrFails ==
    sent.op = "login" =>
        /\ LoginComplete(wire) =>
              /\ raised = NoExc
              /\ _token[sent.self] = wire.response["token"]
              /\ HasKey(Cookies(sent.self), SID)
              /\ Cookies(sent.self)[SID] = wire.cookies[SID]
        /\ (wire.decodable /\ ~LoginComplete(wire)) => raised # NoExc

\* A login that replaced the session cookie of an earlier login.
C16_Witness ==
    /\ sent.op = "login" /\ LoginComplete(wire) /\ raised = NoExc
    /\ HasKey(sent.cookies, SID)
    /\ sent.cookies[SID] # wire.cookies[SID]
    /\ Cookies(sent.self)[SID] = wire.cookies[SID]

\* ------------------------------------------------------------------ C17
\* C17: a verb call raises APIError exactly when the body of the response
\* decodes and its error_code is truthy, and then with the code and the
\* message of the body; when the body does not decode nothing is raised
\* and the call returns the response.
C17_APIErrorIffErrorCode ==
    sent.op \in Verbs =>
        /\ raised.type = "APIError" <=> (wire.decodable /\ Truthy(wire.error_code))
        /\ raised.type = "APIError" =>
              raised = [type |-> "APIError", code |-> wire.error_code,
                        msg |-> wire.error_msg]
        /\ ~wire.decodable => (raised = NoExc /\ returned = Returned(wire))
        /\ raised = NoExc => returned = Returned(wire)

\* A put answered with a body that is no JSON returned it.
C17_Witness ==
    /\ sent.op = "put" /\ ~wire.decodable
    /\ raised = NoExc /\ returned.some /\ returned.value = wire

\* ------------------------------------------------------------------ C18
\* The HTTP method a verb method is named after.
NamedMethod(v) ==
    CASE v = "head" -> "HEAD"
      [] v = "get" -> "GET"
      [] v = "post" -> "POST"
      [] v = "put" -> "PUT"
      [] v = "patch" -> "PATCH"
      [] v = "delete" -> "DELETE"

\* C18: every verb method sends its request with the HTTP method it is
\* named after.
C18_MethodMatchesName ==
    sent.op \in Verbs => sent.method = NamedMethod(sent.verb)

\* ------------------------------------------------------------------ C19
\* C19: within one analysis call at most one request is in flight, and one
\* is exactly while the call waits for the answer; the page handler has
\* returned once for every page but the one being fetched or handled, it
\* is handed the response just received, and a request after the first is
\* sent only when the handler has returned for every earlier page and the
\* offsets have been set from the last response.
C19_StrictlySequential ==
    pc # "idle" =>
        /\ inflight \in {0, 1}
        /\ inflight = 1 <=> pc = "await"
        /\ pc \in {"await", "handler"} => Len(requests) = Len(pages) + 1
        /\ pc \in {"handler", "update"} => resp = wire
        /\ (pc = "update" /\ opts.page_obj = "return_results") =>
              pages[Len(pages)] = wire.response.results
        /\ pc \in {"update", "post", "return", "returned"} =>
              Len(pages) = Len(requests)
        /\ (pc \in {"post", "await"} /\ Len(pages) >= 1) =>
              /\ opts.page.all
              /\ kwargs.query.startOffset = int(wire.response.endOffset)
              /\ kwargs.query.endOffset =
                    int(wire.response.endOffset) + opts.page_size
        /\ (pc = "await" /\ Len(pages) >= 1) =>
              requests[Len(requests)] = kwargs.query

\* The second request is in flight, the first page handled.
C19_Witness ==
    /\ pc = "await" /\ inflight = 1
    /\ Len(requests) = 2 /\ Len(pages) = 1
    /\ opts.page_obj = "return_results" /\ pages[1] = List(<<1, 2>>)

\* ------------------------------------------------------------------ C20
\* C20: a login that raises leaves the client's token and cookie set as
\* they were before it.
C20_FailedLoginChangesNothing ==
    [][\A i \in Clients :
         ((\E r \in TokenResponses : login(i, r)) /\ raised' # NoExc)
         => /\ _token'[i] = _token[i]
            /\ (IF hasOwn'[i] THEN ownCookies'[i] ELSE _cookies') = Cookies(i)]_vars

====
